---- MODULE Spec2Model ----
(***************************************************************************)
(* OTP dispatch pipeline of smsDemo: sendOTP (three revisions kept in      *)
(* src/otpService.js), postData (src/apiService.js) and retrySendOTP.      *)
(*                                                                         *)
(* One top-level call runs at a time.  An action is one synchronous run of *)
(* JavaScript between two suspension points (an awaited network exchange,  *)
(* an awaited timer, the resolution of an async function's promise).       *)
(* Times are integer milliseconds.  Math.random() is a draw from a small   *)
(* sample of its range that always contains both ends of the range.        *)
(***************************************************************************)
EXTENDS Integers, Sequences, FiniteSets, TLC

(* ------------------------------------------------------------------ *)
(* Program constants                                                   *)
(* ------------------------------------------------------------------ *)
MinMobileLength == 10
RawDefaultTimeout == 5000
DefaultTimeout == 30000
ApiDefaultTimeout == 30000
JitterRange == 500
BackoffBase == 1000
BackoffJitterRange == 500
DefaultOtpLength == 6

(* ------------------------------------------------------------------ *)
(* Bounds of the model                                                 *)
(* ------------------------------------------------------------------ *)
MaxMobileLength == 11
MaxRetriesBound == 3

(* ------------------------------------------------------------------ *)
(* JavaScript values                                                   *)
(* ------------------------------------------------------------------ *)
Digits == <<"0", "1", "2", "3", "4", "5", "6", "7", "8", "9">>

JSnull == [t |-> "null", s |-> <<>>]
JSundefined == [t |-> "undefined", s |-> <<>>]
JSnumber == [t |-> "number", s |-> <<>>]
Str(chars) == [t |-> "string", s |-> chars]

\* !v for the values above (JSnumber stands for a non-zero number)
Falsy(v) ==
    \/ v.t \in {"null", "undefined"}
    \/ v.t = "string" /\ Len(v.s) = 0

\* String(v)
StringOf(v) ==
    CASE v.t = "string" -> v.s
      [] v.t = "null" -> <<"n", "u", "l", "l">>
      [] v.t = "undefined" -> <<"u", "n", "d", "e", "f", "i", "n", "e", "d">>
      [] v.t = "number" -> <<"1">>

\* an optional property of an options object: {} when absent, {x} when set
Absent == {}
Has(o) == o # {}
Val(o) == CHOOSE x \in o : TRUE

RECURSIVE Pow2(_)
Pow2(n) == IF n <= 0 THEN 1 ELSE 2 * Pow2(n - 1)

(* ------------------------------------------------------------------ *)
(* Inputs                                                              *)
(* ------------------------------------------------------------------ *)
\* the three revisions of otpService.js: raw http + timer race (lines 1-148),
\* console-traced over postData (149-605), winston-logged over postData (607-845)
Services == {"raw", "traced", "winston"}
RetryServices == {"traced", "winston"}

MobileOfLength(n) == Str([i \in 1..n |-> Digits[((9 * i) % 10) + 1]])

MobileInputs ==
    {JSnull, JSundefined, JSnumber} \cup {MobileOfLength(n) : n \in 0..MaxMobileLength}

OtpInputs == {JSnull, Str(<<"4", "2", "4", "2">>)}

TimeoutInputs == {Absent, {0}, {2000}}

\* a headers object: header name -> value
NoHeaders == [k \in {} |-> ""]
Header(k, v) == [x \in {k} |-> v]

\* { ...a, ...b }: every key of either object, b's value where both have it
Spread(a, b) == [k \in (DOMAIN a) \cup (DOMAIN b) |-> IF k \in DOMAIN b THEN b[k] ELSE a[k]]

\* options.headers of the caller: none, a header of its own, or its own Content-Type
HeaderInputs == {Absent, {Header("X-Client", "app")}, {Header("Content-Type", "text/plain")}}

\* the options objects callers pass: a timeout, or headers
OptionInputs ==
    [timeout : TimeoutInputs, headers : {Absent}] \cup [timeout : {Absent}, headers : HeaderInputs]

\* generateRequestId(): `req_${Date.now()}_${random}`, two of its values
IdSamples == {"req_1_a", "req_1_b"}

\* Math.floor(Math.random() * 10), once per digit
RandomDigitDraws == {[i \in 1..DefaultOtpLength |-> 0], [i \in 1..DefaultOtpLength |-> (3 * i) % 10]}

\* Math.floor(Math.random() * 500) and Math.random() * 500 (kept to whole ms)
JitterSamples == {0, 1, JitterRange \div 2, JitterRange - 1}
BackoffJitterSamples == {0, BackoffJitterRange \div 2, BackoffJitterRange - 1}

\* when the gateway's answer (or the connection error) reaches the client
LatencySamples(T) ==
    {x \in {1, T - 1, T, T + 1, T + (JitterRange \div 2), T + JitterRange - 1, T + JitterRange} : x >= 1}

StatusSamples == {200, 204, 302, 400, 503}

(* ------------------------------------------------------------------ *)
(* State                                                               *)
(* ------------------------------------------------------------------ *)
VARIABLES
    svc,            \* revision of otpService.js in use
    pc,             \* position of the running call
    entry,          \* exported function the caller invoked
    mobileNumber,   \* argument
    otp,            \* argument of sendOTP
    options,        \* argument
    maxRetries,     \* argument of retrySendOTP
    attempt,        \* retrySendOTP: let attempt
    lastError,      \* retrySendOTP: let lastError
    delays,         \* backoffTime of every iteration so far
    dispatchCalls,  \* sendOTP invocations made by the running call
    netCalls,       \* requests handed to the network by the running call
    sendRequests,   \* requests handed to the network by the current sendOTP
    transportLog,   \* how each network exchange of the running call ended
    otpToSend,      \* sendOTP: const otpToSend
    configured,     \* timeout the transport was asked to enforce
    deadline,       \* timeout the transport armed
    elapsed,        \* time the exchange took
    inFlight,       \* a request is out and not aborted
    timerArmed,     \* a timeout timer is pending
    apiResponse,    \* value postData resolved with
    result,         \* value the last sendOTP resolved with (or its fault)
    outcome,        \* what the caller of the exported function got
    retryId,        \* retrySendOTP: const retryId
    passedHeaders,  \* options.headers of every sendOTP invocation of the running call
    wireHeaders,    \* headers object of every request the running call gave its HTTP client
    callerHeaders,  \* the headers object the caller passed in and still holds
    logged,         \* what the log statements of the running call wrote of the mobile number and the OTP
    smsPc,          \* sendSmsOtp: position of the running call
    smsArgs,        \* sendSmsOtp: its arguments
    smsRequests,    \* sendSmsOtp: requests made for the running call
    smsStatus,      \* sendSmsOtp: response.status, 0 while there is no response
    smsResult,      \* sendSmsOtp: what its caller got
    smsWire,        \* sendSmsOtp: the request it gave axios
    smsLog,         \* sendSmsOtp: what the running call wrote to the console
    call,           \* last application of one of the pure helpers
    frames,         \* two calls at once: the locals of each call
    heap,           \* two calls at once: the headers object their caller gave to both
    nextId          \* two calls at once: ids generateRequestId has handed out

vars == <<svc, pc, entry, mobileNumber, otp, options, maxRetries, attempt, lastError,
          delays, dispatchCalls, netCalls, sendRequests, transportLog, otpToSend,
          configured, deadline, elapsed, inFlight, timerArmed, apiResponse, result,
          outcome, retryId, passedHeaders, wireHeaders, callerHeaders, logged,
          smsPc, smsArgs, smsRequests, smsStatus, smsResult, smsWire, smsLog, call,
          frames, heap, nextId>>

\* the state of sendSmsOtp and of the pure helpers, which otpService's calls
\* leave alone
libVars == <<smsPc, smsArgs, smsRequests, smsStatus, smsResult, smsWire, smsLog, call,
             frames, heap, nextId>>

\* the state of two calls running at once
concVars == <<frames, heap, nextId>>

\* the state of sendSmsOtp
smsVars == <<smsPc, smsArgs, smsRequests, smsStatus, smsResult, smsWire, smsLog>>

\* the state of sendOTP and retrySendOTP
otpVars == <<svc, pc, entry, mobileNumber, otp, options, maxRetries, attempt, lastError,
             delays, dispatchCalls, netCalls, sendRequests, transportLog, otpToSend,
             configured, deadline, elapsed, inFlight, timerArmed, apiResponse, result,
             outcome, retryId, passedHeaders, wireHeaders, callerHeaders, logged>>

NoOtp == Str(<<>>)
NoResponse == [success |-> FALSE, status |-> 0, isTimeout |-> FALSE, code |-> "none"]
NoResult == [kind |-> "none", success |-> FALSE, message |-> "none", otp |-> NoOtp,
             fields |-> {}, attempts |-> 0]
NoSmsOptions ==
    [username |-> Absent, senderId |-> Absent, secureKey |-> Absent, password |-> Absent,
     messagePrefix |-> Absent, messageSuffix |-> Absent]
NoSmsArgs == [mobileNumber |-> JSnull, otp |-> JSnull, options |-> NoSmsOptions]
NoSmsWire == [sent |-> FALSE]
NoSmsResult == [kind |-> "none", success |-> FALSE, statusCode |-> Absent, message |-> "none",
                fields |-> {}]
NoCall == [fn |-> "none", impl |-> "none", args |-> <<>>, threw |-> FALSE, ret |-> JSundefined]

\* the two calls a caller has running at once
CallIds == {1, 2}

\* the locals of a call that has not been made
NoFrame ==
    [pc |-> "idle", entry |-> "none", mobileNumber |-> JSnull, sharesHeaders |-> FALSE,
     maxRetries |-> 0, attempt |-> 0, lastError |-> "none", requestId |-> 0, retryId |-> 0,
     ownHeaders |-> [k \in {} |-> ""], usesHeap |-> FALSE, wireId |-> 0,
     otpToSend |-> NoOtp, result |-> NoResult, outcome |-> NoResult]

\* the headers object of the caller before any call
CallerObject == [x \in {"X-Client"} |-> "app"]

(* ------------------------------------------------------------------ *)
(* Pure helpers of otpService.js and apiService.js                     *)
(* ------------------------------------------------------------------ *)
\* generateOTP: one digit of "0123456789" per loop turn
generateOTP(length, draws) == Str([i \in 1..length |-> Digits[draws[i] + 1]])

\* faulty variant: the length test lets a 9-character number through
ValidationError_OffByOne(service, m) ==
    IF service = "winston" /\ m.t # "string" THEN "TypeError"
    ELSE IF Falsy(m) \/ (m.t = "string" /\ Len(m.s) < MinMobileLength - 1)
         THEN "Invalid mobile number"
         ELSE "none"

\* The statements of sendOTP that run before the request is built and can end
\* in an exception: the entry log of the winston revision dereferences
\* mobileNumber (.substring) before the check, the check itself is
\* `!mobileNumber || mobileNumber.length < 10` (a number has no length, and
\* undefined < 10 is false).  "none" when the request is built.
ValidationError(service, m) ==
    IF service = "winston" /\ m.t # "string" THEN "TypeError"
    ELSE IF Falsy(m) \/ (m.t = "string" /\ Len(m.s) < MinMobileLength)
         THEN "Invalid mobile number"
         ELSE "none"

\* { ...defaultOptions, ...options }.timeout
FinalTimeout(service, opts) ==
    IF Has(opts.timeout) THEN Val(opts.timeout)
    ELSE IF service = "raw" THEN RawDefaultTimeout ELSE DefaultTimeout

\* faulty variant: the `|| 30000` fallback is lost
AxiosTimeout_NoFallback(timeout, jitter) == timeout + jitter

\* postData: timeout: options.timeout || 30000, then + jitter
AxiosTimeout(timeout, jitter) ==
    (IF timeout = 0 THEN ApiDefaultTimeout ELSE timeout) + jitter

\* raw revision: setTimeout(reject, finalOptions.timeout); Node arms 1 ms for
\* a delay below 1
TimerDelay(timeout) == IF timeout < 1 THEN 1 ELSE timeout

\* postData, response received (validateStatus: null, so every status resolves)
PostData_Response(status) ==
    [success |-> status >= 200 /\ status < 300, status |-> status,
     isTimeout |-> FALSE, code |-> "none"]

\* postData, catch block: axios rejected with error.code = code, no response
PostData_Catch(code) ==
    [success |-> FALSE, status |-> 0, isTimeout |-> (code = "ECONNABORTED"), code |-> code]

\* raw revision, res.on('end'): JSON.parse, then the status test; the error
\* the promise is rejected with, "none" when it is resolved
RawExchange(status, parses) ==
    IF ~parses THEN "Error parsing response"
    ELSE IF status >= 200 /\ status < 300 THEN "none"
    ELSE "HTTP error"

\* faulty variant: the traced catch block forgets the timing
SendOTP_Catch_NoTiming(service, m, message) ==
    [kind |-> "returned", success |-> FALSE, message |-> message, otp |-> NoOtp,
     fields |-> {"success", "message", "error"}, attempts |-> 0]

\* sendOTP, catch block: the failure object returned.  The winston revision
\* first logs `mobileNumber ? mobileNumber.substring(0, 4)... : "invalid"`,
\* which itself throws for a truthy value that is not a string; nothing
\* encloses the catch block, so that fault leaves sendOTP.
SendOTP_Catch(service, m, message) ==
    IF service = "winston" /\ ~Falsy(m) /\ m.t # "string"
    THEN [kind |-> "threw", success |-> FALSE, message |-> "TypeError", otp |-> NoOtp,
          fields |-> {"message"}, attempts |-> 0]
    ELSE [kind |-> "returned", success |-> FALSE, message |-> message, otp |-> NoOtp,
          fields |-> CASE service = "raw" -> {"success", "message"}
                       [] service = "traced" -> {"success", "message", "requestId", "error", "durationMs"}
                       [] service = "winston" -> {"success", "message", "error"},
          attempts |-> 0]

\* faulty variant: the result reports no OTP
SendOTP_Success_DropsOtp(service, sent) ==
    [kind |-> "returned", success |-> TRUE, message |-> "OTP sent successfully", otp |-> NoOtp,
     fields |-> {"success", "message", "response"}, attempts |-> 0]

\* sendOTP, the return statement at the end of the try block
SendOTP_Success(service, sent) ==
    [kind |-> "returned", success |-> TRUE, message |-> "OTP sent successfully", otp |-> sent,
     fields |-> CASE service = "raw" -> {"success", "message", "otp", "response"}
                  [] service = "traced" -> {"success", "message", "otp", "response", "requestId", "durationMs"}
                  [] service = "winston" -> {"success", "message", "otp", "response", "durationMs"},
     attempts |-> 0]

\* sendOTP after `await postData(...)`: response.success is logged, never tested
SendOTP_AfterPost(service, response, sent) == SendOTP_Success(service, sent)

\* "*".repeat(n)
Stars(n) == [i \in 1..n |-> "*"]

\* faulty variant: the run of stars forgets the visible end
maskSensitive_LongStars(text, visibleStart, visibleEnd) ==
    IF Falsy(text) \/ text.t # "string" \/ Len(text.s) <= visibleStart + visibleEnd
    THEN text
    ELSE Str(SubSeq(text.s, 1, visibleStart)
             \o Stars(Len(text.s) - visibleStart)
             \o SubSeq(text.s, Len(text.s) - visibleEnd + 1, Len(text.s)))

\* maskSensitive of otpService.js: text.substring(0, visibleStart), the
\* stars, text.substring(text.length - visibleEnd)
maskSensitive(text, visibleStart, visibleEnd) ==
    IF Falsy(text) \/ text.t # "string" \/ Len(text.s) <= visibleStart + visibleEnd
    THEN text
    ELSE Str(SubSeq(text.s, 1, visibleStart)
             \o Stars(Len(text.s) - visibleStart - visibleEnd)
             \o SubSeq(text.s, Len(text.s) - visibleEnd + 1, Len(text.s)))

\* data.slice(-n) for 0 <= n <= data.length: -0 is 0, the whole string
SliceFromEnd(chars, n) ==
    IF n = 0 THEN chars ELSE SubSeq(chars, Len(chars) - n + 1, Len(chars))

\* does postData get the very headers object the caller holds?  The raw
\* revision copies it ({ ...finalOptions.headers, Host }); the others hand
\* finalOptions.headers on by reference (apiOptions.headers), and that is the
\* caller's object when the caller gave one, unless retrySendOTP of the traced
\* revision put a fresh object in between
PostDataGetsCallerHeaders(service, ent, opts) ==
    /\ service # "raw"
    /\ Has(opts.headers)
    /\ ent = "sendOTP" \/ service = "winston"

\* `${mobileNumber.substring(0, 4)}****${mobileNumber.slice(-2)}` of the
\* winston revision
WinstonMobileMask(chars) ==
    SubSeq(chars, 1, IF Len(chars) < 4 THEN Len(chars) ELSE 4)
        \o Stars(4)
        \o SliceFromEnd(chars, IF Len(chars) < 2 THEN Len(chars) ELSE 2)

\* what one sendOTP call writes to the log of the mobile number and of the
\* OTP, up to its first suspension; `valid`: the validation passed;
\* `development`: NODE_ENV === "development"
SendOTP_Log(service, mobile, sent, valid, development) ==
    CASE service = "raw" ->
            IF valid
            THEN {[what |-> "otp", text |-> sent], [what |-> "mobile", text |-> mobile]}
            ELSE {}
      [] service = "traced" ->
            {[what |-> "mobile", text |-> maskSensitive(mobile, 4, 2)]}
            \cup (IF valid THEN {[what |-> "otp", text |-> maskSensitive(sent, 1, 1)]} ELSE {})
      [] service = "winston" ->
            (IF mobile.t = "string"
             THEN {[what |-> "mobile", text |-> Str(WinstonMobileMask(mobile.s))]}
             ELSE {})
            \cup (IF valid /\ development THEN {[what |-> "otp", text |-> sent]} ELSE {})

\* retrySendOTP's first log statement (traced revision: mobileMasked)
RetryStartLog(service, mobile) ==
    IF service = "traced"
    THEN {[what |-> "mobile", text |-> maskSensitive(mobile, 4, 2)]}
    ELSE {}

\* defaultOptions.headers of sendOTP
DefaultHeaders(service) ==
    IF service = "raw"
    THEN Spread(Header("Content-Type", "application/json"), Header("User-Agent", "OTPService/1.0"))
    ELSE Header("Content-Type", "application/json")

\* finalOptions.headers: finalOptions = { ...defaultOptions, ...options } copies
\* the top-level keys only, so a headers object of the caller takes the place
\* of the default one
FinalHeaders(service, passed) == IF Has(passed) THEN Val(passed) ELSE DefaultHeaders(service)

\* the headers of the request handed to the transport.  raw revision:
\* { ...finalOptions.headers, Host }; the others: postData takes
\* options.headers (set by sendOTP, so its `||` default is not used) and adds
\* X-Request-ID = requestId
RequestHeaders(service, passed) ==
    IF service = "raw"
    THEN Spread(FinalHeaders(service, passed), Header("Host", "amritsarovar.gov.in"))
    ELSE Spread(FinalHeaders(service, passed), Header("X-Request-ID", "requestId"))

\* faulty variant: the attempt header counts from 0
RetryOptionsHeaders_ZeroBased(service, opts, k, max, id) ==
    IF service = "traced"
    THEN {Spread(IF Has(opts.headers) THEN Val(opts.headers) ELSE NoHeaders,
                 Spread(Header("X-Retry-Attempt", k - 1),
                        Spread(Header("X-Retry-Max", max),
                               Header("X-Retry-ID", id))))}
    ELSE opts.headers

\* retrySendOTP: retryOptions.headers of iteration k.  traced revision:
\* { ...(options.headers || {}), X-Retry-Attempt, X-Retry-Max, X-Retry-ID };
\* the winston revision passes options on as they are
RetryOptionsHeaders(service, opts, k, max, id) ==
    IF service = "traced"
    THEN {Spread(IF Has(opts.headers) THEN Val(opts.headers) ELSE NoHeaders,
                 Spread(Header("X-Retry-Attempt", k),
                        Spread(Header("X-Retry-Max", max),
                               Header("X-Retry-ID", id))))}
    ELSE opts.headers

\* faulty variant: the exponent of the comment above the statement (2^attempt)
Backoff_AsCommented(k, random) == IF k > 1 THEN Pow2(k) * BackoffBase + random ELSE 0

\* faulty variant: linear instead of exponential growth
Backoff_Linear(k, random) == IF k > 1 THEN k * BackoffBase + random ELSE 0

\* retrySendOTP: backoffTime of iteration k with random = Math.random() * 500
Backoff(k, random) == IF k > 1 THEN Pow2(k - 1) * BackoffBase + random ELSE 0

\* retrySendOTP: the value returned on result.success
RetrySuccess(service, res, k) ==
    IF service = "traced"
    THEN [res EXCEPT !.attempts = k,
                     !.fields = @ \cup {"attempt", "attempts", "retryId", "totalDurationMs"}]
    ELSE res

\* faulty variant: the count leaves out the first attempt
RetryExhausted_CountsRetries(service, max, err) ==
    [kind |-> "threw", success |-> FALSE, message |-> err, otp |-> NoOtp,
     fields |-> {"message", "retryId", "attempts", "totalDurationMs", "originalError"},
     attempts |-> max - 1]

\* faulty variant: the failure is returned instead of thrown
RetryExhausted_ReturnsFailure(service, max, err) ==
    [kind |-> "returned", success |-> FALSE, message |-> err, otp |-> NoOtp,
     fields |-> {"success", "message"}, attempts |-> max]

\* retrySendOTP after the loop: the error thrown
RetryExhausted(service, max, err) ==
    IF service = "traced"
    THEN [kind |-> "threw", success |-> FALSE, message |-> err, otp |-> NoOtp,
          fields |-> {"message", "retryId", "attempts", "totalDurationMs", "originalError"},
          attempts |-> max]
    ELSE [kind |-> "threw", success |-> FALSE,
          message |-> IF err = "none" THEN "Failed to send OTP after multiple attempts" ELSE err,
          otp |-> NoOtp, fields |-> {"message"}, attempts |-> 0]

(* ------------------------------------------------------------------ *)
(* Initial state and the caller                                        *)
(* ------------------------------------------------------------------ *)
Idle ==
    /\ pc = "idle"
    /\ entry = "none"
    /\ mobileNumber = JSnull
    /\ otp = JSnull
    /\ options = [timeout |-> Absent, headers |-> Absent]
    /\ maxRetries = 0
    /\ attempt = 0
    /\ lastError = "none"
    /\ delays = <<>>
    /\ dispatchCalls = 0
    /\ netCalls = 0
    /\ sendRequests = 0
    /\ transportLog = <<>>
    /\ otpToSend = NoOtp
    /\ configured = 0
    /\ deadline = 0
    /\ elapsed = 0
    /\ inFlight = FALSE
    /\ timerArmed = FALSE
    /\ apiResponse = NoResponse
    /\ result = NoResult
    /\ outcome = NoResult
    /\ retryId = "none"
    /\ passedHeaders = <<>>
    /\ wireHeaders = <<>>
    /\ callerHeaders = Absent
    /\ logged = {}

\* no sendSmsOtp call is running and no helper has been applied
LibIdle ==
    /\ smsPc = "idle"
    /\ smsArgs = NoSmsArgs
    /\ smsRequests = 0
    /\ smsStatus = 0
    /\ smsResult = NoSmsResult
    /\ smsWire = NoSmsWire
    /\ smsLog = <<>>
    /\ call = NoCall
    /\ frames = [i \in CallIds |-> NoFrame]
    /\ heap = CallerObject
    /\ nextId = 1

Init ==
    /\ svc \in Services
    /\ Idle
    /\ LibIdle

\* a caller invokes sendOTP(mobileNumber, otp, options)
CallSendOTP(m, o, opts) ==
    /\ pc = "idle"
    /\ pc' = "sendOTP"
    /\ entry' = "sendOTP"
    /\ mobileNumber' = m
    /\ otp' = o
    /\ options' = opts
    /\ UNCHANGED <<svc, maxRetries, attempt, lastError, delays, dispatchCalls, netCalls,
                   sendRequests, transportLog, otpToSend, configured, deadline, elapsed,
                   inFlight, timerArmed, apiResponse, result, outcome, retryId,
                   passedHeaders, wireHeaders, logged>>
    /\ callerHeaders' = opts.headers
    /\ UNCHANGED libVars

\* a caller invokes retrySendOTP(mobileNumber, options, maxRetries):
\* retryId = generateRequestId() (traced revision), lastError = null, attempt = 0
CallRetrySendOTP(m, opts, max) ==
    /\ pc = "idle"
    /\ svc \in RetryServices
    /\ pc' = "retry_loop"
    /\ entry' = "retrySendOTP"
    /\ mobileNumber' = m
    /\ otp' = JSnull
    /\ options' = opts
    /\ maxRetries' = max
    /\ attempt' = 0
    /\ lastError' = "none"
    /\ retryId' \in IF svc = "traced" THEN IdSamples ELSE {"none"}
    /\ UNCHANGED <<svc, delays, dispatchCalls, netCalls, sendRequests, transportLog,
                   otpToSend, configured, deadline, elapsed, inFlight, timerArmed,
                   apiResponse, result, outcome, passedHeaders, wireHeaders>>
    /\ callerHeaders' = opts.headers
    /\ logged' = RetryStartLog(svc, m)
    /\ UNCHANGED libVars

\* the caller has its answer; everything the call owned is dropped
CallerContinues ==
    /\ pc = "done"
    /\ pc' = "idle"
    /\ entry' = "none"
    /\ mobileNumber' = JSnull
    /\ otp' = JSnull
    /\ options' = [timeout |-> Absent, headers |-> Absent]
    /\ maxRetries' = 0
    /\ attempt' = 0
    /\ lastError' = "none"
    /\ delays' = <<>>
    /\ dispatchCalls' = 0
    /\ netCalls' = 0
    /\ sendRequests' = 0
    /\ transportLog' = <<>>
    /\ otpToSend' = NoOtp
    /\ configured' = 0
    /\ deadline' = 0
    /\ elapsed' = 0
    /\ inFlight' = FALSE
    /\ timerArmed' = FALSE
    /\ apiResponse' = NoResponse
    /\ result' = NoResult
    /\ outcome' = NoResult
    /\ retryId' = "none"
    /\ passedHeaders' = <<>>
    /\ wireHeaders' = <<>>
    /\ callerHeaders' = Absent
    /\ logged' = {}
    /\ UNCHANGED svc
    /\ UNCHANGED libVars

(* ------------------------------------------------------------------ *)
(* sendOTP                                                             *)
(* ------------------------------------------------------------------ *)
\* sendOTP from its first statement to its first suspension: either the
\* catch block returns the failure object, or the request is handed to the
\* network (raw revision: http.request + the timeout promise; the others:
\* postData up to `await axios(axiosOptions)`).
SendOTP_Begin ==
    /\ pc = "sendOTP"
    /\ dispatchCalls' = dispatchCalls + 1
    /\ LET err == ValidationError(svc, mobileNumber)
           passed == IF entry = "retrySendOTP"
                     THEN RetryOptionsHeaders(svc, options, attempt, maxRetries, retryId)
                     ELSE options.headers
       IN
       /\ passedHeaders' = Append(passedHeaders, passed)
       /\ IF err # "none"
          THEN
            /\ result' = SendOTP_Catch(svc, mobileNumber, err)
            /\ pc' = "sendOTP_settled"
            /\ sendRequests' = 0
            /\ logged' = logged \cup SendOTP_Log(svc, mobileNumber, NoOtp, FALSE, FALSE)
            /\ UNCHANGED <<netCalls, otpToSend, configured, deadline, elapsed, inFlight,
                           timerArmed, wireHeaders, callerHeaders>>
          ELSE \E draws \in RandomDigitDraws, jitter \in JitterSamples,
                  development \in (IF svc = "winston" THEN BOOLEAN ELSE {FALSE}) :
            /\ otpToSend' = IF Falsy(otp) THEN generateOTP(DefaultOtpLength, draws) ELSE otp
            /\ logged' = logged \cup SendOTP_Log(svc, mobileNumber, otpToSend', TRUE, development)
            /\ wireHeaders' = Append(wireHeaders, RequestHeaders(svc, passed))
            /\ callerHeaders' = IF PostDataGetsCallerHeaders(svc, entry, options)
                                THEN {RequestHeaders(svc, passed)}
                                ELSE callerHeaders
            /\ configured' = FinalTimeout(svc, options)
            /\ deadline' = IF svc = "raw" THEN TimerDelay(configured')
                           ELSE AxiosTimeout(configured', jitter)
            /\ elapsed' = 0
            /\ netCalls' = netCalls + 1
            /\ sendRequests' = 1
            /\ inFlight' = TRUE
            /\ timerArmed' = TRUE
            /\ result' = NoResult
            /\ pc' = "awaiting"
    /\ apiResponse' = NoResponse
    /\ UNCHANGED <<svc, entry, mobileNumber, otp, options, maxRetries, attempt, lastError,
                   delays, transportLog, outcome, retryId>>
    /\ UNCHANGED libVars

\* the timeout the latencies are sampled around
SampleBase == IF svc = "raw" THEN deadline ELSE AxiosTimeout(configured, 0)

\* the gateway's response is complete after `latency` ms, before the timeout
\* has fired.  postData resolves with its response object and sendOTP runs to
\* its return statement; the raw revision parses the body and tests the
\* status, and its timer stays armed.
HttpResponse(status, parses, latency) ==
    /\ pc = "awaiting"
    /\ latency \in LatencySamples(SampleBase)
    /\ latency <= deadline
    /\ elapsed' = latency
    /\ inFlight' = FALSE
    /\ transportLog' = Append(transportLog,
                              IF status >= 200 /\ status < 300 THEN "2xx" ELSE "non2xx")
    /\ IF svc = "raw"
       THEN /\ apiResponse' = NoResponse
            /\ timerArmed' = timerArmed
            /\ result' = LET err == RawExchange(status, parses) IN
                         IF err = "none" THEN SendOTP_Success(svc, otpToSend)
                         ELSE SendOTP_Catch(svc, mobileNumber, err)
       ELSE /\ apiResponse' = PostData_Response(status)
            /\ timerArmed' = FALSE
            /\ result' = SendOTP_AfterPost(svc, apiResponse', otpToSend)
    /\ pc' = "sendOTP_settled"
    /\ UNCHANGED <<svc, entry, mobileNumber, otp, options, maxRetries, attempt, lastError,
                   delays, dispatchCalls, netCalls, sendRequests, otpToSend, configured,
                   deadline, outcome,
                   retryId, passedHeaders, wireHeaders,
                   callerHeaders, logged>>
    /\ UNCHANGED libVars

\* the connection fails after `latency` ms (DNS, refused, TLS): axios rejects
\* and postData's catch block returns; the raw revision's req.on('error')
\* rejects and sendOTP's catch block returns
TransportError(latency) ==
    /\ pc = "awaiting"
    /\ latency \in LatencySamples(SampleBase)
    /\ latency <= deadline
    /\ elapsed' = latency
    /\ inFlight' = FALSE
    /\ transportLog' = Append(transportLog, "error")
    /\ IF svc = "raw"
       THEN /\ apiResponse' = NoResponse
            /\ timerArmed' = timerArmed
            /\ result' = SendOTP_Catch(svc, mobileNumber, "connection error")
       ELSE /\ apiResponse' = PostData_Catch("ECONNREFUSED")
            /\ timerArmed' = FALSE
            /\ result' = SendOTP_AfterPost(svc, apiResponse', otpToSend)
    /\ pc' = "sendOTP_settled"
    /\ UNCHANGED <<svc, entry, mobileNumber, otp, options, maxRetries, attempt, lastError,
                   delays, dispatchCalls, netCalls, sendRequests, otpToSend, configured,
                   deadline, outcome,
                   retryId, passedHeaders, wireHeaders,
                   callerHeaders, logged>>
    /\ UNCHANGED libVars

\* faulty variant: no timeout is armed, a silent gateway is waited for forever
TimeoutFires_NotArmed ==
    /\ pc = "awaiting"
    /\ FALSE
    /\ UNCHANGED vars

\* nothing has arrived when the armed timeout elapses: axios aborts the
\* request and rejects with ECONNABORTED; the raw revision's timer rejects the
\* race and the request stays out
TimeoutFires ==
    /\ pc = "awaiting"
    /\ elapsed' = deadline
    /\ timerArmed' = FALSE
    /\ transportLog' = Append(transportLog, "timeout")
    /\ IF svc = "raw"
       THEN /\ apiResponse' = NoResponse
            /\ inFlight' = inFlight
            /\ result' = SendOTP_Catch(svc, mobileNumber, "Request timed out")
       ELSE /\ apiResponse' = PostData_Catch("ECONNABORTED")
            /\ inFlight' = FALSE
            /\ result' = SendOTP_AfterPost(svc, apiResponse', otpToSend)
    /\ pc' = "sendOTP_settled"
    /\ UNCHANGED <<svc, entry, mobileNumber, otp, options, maxRetries, attempt, lastError,
                   delays, dispatchCalls, netCalls, sendRequests, otpToSend, configured,
                   deadline, outcome,
                   retryId, passedHeaders, wireHeaders,
                   callerHeaders, logged>>
    /\ UNCHANGED libVars

\* the promise of a sendOTP called directly settles for the caller
SendOTP_Settles ==
    /\ pc = "sendOTP_settled"
    /\ entry = "sendOTP"
    /\ outcome' = result
    /\ pc' = "done"
    /\ UNCHANGED <<svc, entry, mobileNumber, otp, options, maxRetries, attempt, lastError,
                   delays, dispatchCalls, netCalls, sendRequests, transportLog, otpToSend,
                   configured, deadline, elapsed, inFlight, timerArmed, apiResponse, result,
                   retryId, passedHeaders, wireHeaders,
                   callerHeaders, logged>>
    /\ UNCHANGED libVars

\* faulty variant: the late response is not held back by the settled race and
\* becomes the result
LateResponse_OverwritesResult ==
    /\ svc = "raw"
    /\ pc \in {"sendOTP_settled", "done"}
    /\ inFlight
    /\ inFlight' = FALSE
    /\ result' = SendOTP_Success(svc, otpToSend)
    /\ UNCHANGED <<svc, pc, entry, mobileNumber, otp, options, maxRetries, attempt, lastError,
                   delays, dispatchCalls, netCalls, sendRequests, transportLog, otpToSend,
                   configured, deadline, elapsed, timerArmed, apiResponse, outcome,
                   retryId, passedHeaders, wireHeaders,
                   callerHeaders, logged>>
    /\ UNCHANGED libVars

\* raw revision, after the timeout has won the race: the request was not
\* destroyed, the gateway's response (or a connection error) still arrives
\* and res.on('end') resolves or rejects apiPromise, which the settled race
\* ignores
LateResponse ==
    /\ svc = "raw"
    /\ pc \in {"sendOTP_settled", "done"}
    /\ inFlight
    /\ inFlight' = FALSE
    /\ UNCHANGED <<svc, pc, entry, mobileNumber, otp, options, maxRetries, attempt, lastError,
                   delays, dispatchCalls, netCalls, sendRequests, transportLog, otpToSend,
                   configured, deadline, elapsed, timerArmed, apiResponse, result, outcome,
                   retryId, passedHeaders, wireHeaders,
                   callerHeaders, logged>>
    /\ UNCHANGED libVars

\* raw revision, after the response has won the race: the timer was not
\* cleared and fires; its reject of timeoutPromise is ignored by the settled race
LateTimer ==
    /\ svc = "raw"
    /\ pc \in {"sendOTP_settled", "done"}
    /\ timerArmed
    /\ timerArmed' = FALSE
    /\ UNCHANGED <<svc, pc, entry, mobileNumber, otp, options, maxRetries, attempt, lastError,
                   delays, dispatchCalls, netCalls, sendRequests, transportLog, otpToSend,
                   configured, deadline, elapsed, inFlight, apiResponse, result, outcome,
                   retryId, passedHeaders, wireHeaders,
                   callerHeaders, logged>>
    /\ UNCHANGED libVars

(* ------------------------------------------------------------------ *)
(* retrySendOTP                                                        *)
(* ------------------------------------------------------------------ *)
\* faulty variant: the loop condition admits one turn too many
RetrySendOTP_Iterate_Inclusive ==
    /\ pc = "retry_loop"
    /\ attempt <= maxRetries
    /\ attempt' = attempt + 1
    /\ \E random \in BackoffJitterSamples :
          LET backoffTime == Backoff(attempt', random) IN
          /\ delays' = Append(delays, backoffTime)
          /\ pc' = IF backoffTime > 0 THEN "backoff" ELSE "sendOTP"
    /\ UNCHANGED <<svc, entry, mobileNumber, otp, options, maxRetries, lastError,
                   dispatchCalls, netCalls, sendRequests, transportLog, otpToSend,
                   configured, deadline, elapsed, inFlight, timerArmed, apiResponse,
                   result, outcome,
                   retryId, passedHeaders, wireHeaders,
                   callerHeaders, logged>>
    /\ UNCHANGED libVars

\* while (attempt < maxRetries): attempt++, backoffTime; a positive
\* backoffTime is awaited, otherwise sendOTP(mobileNumber, null, ...) is called
RetrySendOTP_Iterate ==
    /\ pc = "retry_loop"
    /\ attempt < maxRetries
    /\ attempt' = attempt + 1
    /\ \E random \in BackoffJitterSamples :
          LET backoffTime == Backoff(attempt', random) IN
          /\ delays' = Append(delays, backoffTime)
          /\ pc' = IF backoffTime > 0 THEN "backoff" ELSE "sendOTP"
    /\ UNCHANGED <<svc, entry, mobileNumber, otp, options, maxRetries, lastError,
                   dispatchCalls, netCalls, sendRequests, transportLog, otpToSend,
                   configured, deadline, elapsed, inFlight, timerArmed, apiResponse,
                   result, outcome,
                   retryId, passedHeaders, wireHeaders,
                   callerHeaders, logged>>
    /\ UNCHANGED libVars

\* setTimeout(resolve, backoffTime) fires; sendOTP(mobileNumber, null, ...) is called
BackoffElapsed ==
    /\ pc = "backoff"
    /\ pc' = "sendOTP"
    /\ UNCHANGED <<svc, entry, mobileNumber, otp, options, maxRetries, attempt, lastError,
                   delays, dispatchCalls, netCalls, sendRequests, transportLog, otpToSend,
                   configured, deadline, elapsed, inFlight, timerArmed, apiResponse,
                   result, outcome,
                   retryId, passedHeaders, wireHeaders,
                   callerHeaders, logged>>
    /\ UNCHANGED libVars

\* `await sendOTP(...)` settles inside the try block of the loop body
RetrySendOTP_AfterAttempt ==
    /\ pc = "sendOTP_settled"
    /\ entry = "retrySendOTP"
    /\ IF result.kind = "returned" /\ result.success
       THEN /\ outcome' = RetrySuccess(svc, result, attempt)
            /\ pc' = "done"
            /\ UNCHANGED lastError
       ELSE /\ lastError' = result.message
            /\ pc' = "retry_loop"
            /\ UNCHANGED outcome
    /\ UNCHANGED <<svc, entry, mobileNumber, otp, options, maxRetries, attempt, delays,
                   dispatchCalls, netCalls, sendRequests, transportLog, otpToSend,
                   configured, deadline, elapsed, inFlight, timerArmed, apiResponse, result,
                   retryId, passedHeaders, wireHeaders,
                   callerHeaders, logged>>
    /\ UNCHANGED libVars

\* the loop condition fails: the error is thrown to the caller
RetrySendOTP_Exhausted ==
    /\ pc = "retry_loop"
    /\ ~(attempt < maxRetries)
    /\ outcome' = RetryExhausted(svc, maxRetries, lastError)
    /\ pc' = "done"
    /\ UNCHANGED <<svc, entry, mobileNumber, otp, options, maxRetries, attempt, lastError,
                   delays, dispatchCalls, netCalls, sendRequests, transportLog, otpToSend,
                   configured, deadline, elapsed, inFlight, timerArmed, apiResponse, result,
                   retryId, passedHeaders, wireHeaders,
                   callerHeaders, logged>>
    /\ UNCHANGED libVars

(* ------------------------------------------------------------------ *)
(* Specification                                                       *)
(* ------------------------------------------------------------------ *)
MaxRetriesInputs == (0 - 1)..MaxRetriesBound

Next ==
    \/ \E m \in MobileInputs, o \in OtpInputs, opts \in OptionInputs : CallSendOTP(m, o, opts)
    \/ \E m \in MobileInputs, opts \in OptionInputs, max \in MaxRetriesInputs :
          CallRetrySendOTP(m, opts, max)
    \/ SendOTP_Begin
    \/ \E status \in StatusSamples, parses \in BOOLEAN, latency \in LatencySamples(SampleBase) :
          HttpResponse(status, parses, latency)
    \/ \E latency \in LatencySamples(SampleBase) : TransportError(latency)
    \/ TimeoutFires
    \/ LateResponse
    \/ LateTimer
    \/ SendOTP_Settles
    \/ RetrySendOTP_Iterate
    \/ BackoffElapsed
    \/ RetrySendOTP_AfterAttempt
    \/ RetrySendOTP_Exhausted
    \/ CallerContinues

Spec == Init /\ [][Next]_vars

TypeOK ==
    /\ svc \in Services
    /\ pc \in {"idle", "sendOTP", "awaiting", "sendOTP_settled", "retry_loop", "backoff", "done"}
    /\ entry \in {"none", "sendOTP", "retrySendOTP"}
    /\ mobileNumber \in MobileInputs
    /\ options \in OptionInputs
    /\ attempt \in 0..(MaxRetriesBound + 1)
    /\ dispatchCalls \in 0..(MaxRetriesBound + 1)
    /\ netCalls \in 0..(MaxRetriesBound + 1)
    /\ inFlight \in BOOLEAN
    /\ timerArmed \in BOOLEAN
    /\ \A e \in logged : e.what \in {"mobile", "otp"}
    /\ callerHeaders = Absent \/ Has(callerHeaders)
    /\ result.kind \in {"none", "returned", "threw"}
    /\ outcome.kind \in {"none", "returned", "threw"}

\* What the event loop is bound to do next once a call is running: run the
\* code that is ready (a called sendOTP starts, a settled promise resumes its
\* awaiter, the retry loop takes its next turn) and fire a timer that is
\* armed (the request timeout, the backoff delay).  No such promise is made
\* for the callers or for the gateway.
Progress ==
    \/ SendOTP_Begin
    \/ TimeoutFires
    \/ SendOTP_Settles
    \/ RetrySendOTP_Iterate
    \/ BackoffElapsed
    \/ RetrySendOTP_AfterAttempt
    \/ RetrySendOTP_Exhausted

FairSpec == Spec /\ WF_vars(Progress)

(* ------------------------------------------------------------------ *)
(* sendSmsOtp, the signed government adapter (fetchExample.js)         *)
(* ------------------------------------------------------------------ *)
\* axiosConfig.maxRedirects
MaxRedirects == 0

SmsMobileInputs == {MobileOfLength(10), MobileOfLength(3), JSnull, JSundefined}
SmsOtpInputs == {Str(<<"4", "2", "4", "2">>), Str(<<"M">>), JSundefined}

\* options.username: not given, a string, or a value without .trim()
SmsOptions(u, s, k, p, pre, suf) ==
    [username |-> u, senderId |-> s, secureKey |-> k, password |-> p,
     messagePrefix |-> pre, messageSuffix |-> suf]

\* options: none; a username; a username that is no string; one-letter values
\* with an empty prefix and suffix; values with blanks around them
SmsOptionInputs ==
    { NoSmsOptions,
      [NoSmsOptions EXCEPT !.username = {Str(<<"u", "1">>)}],
      [NoSmsOptions EXCEPT !.username = {JSnumber}],
      SmsOptions({Str(<<"U">>)}, {Str(<<"S">>)}, {Str(<<"K">>)}, Absent,
                 {Str(<<>>)}, {Str(<<>>)}),
      SmsOptions({Str(<<" ", "U", " ">>)}, {Str(<<"S", " ">>)}, {Str(<<" ", "K", "9">>)},
                 {Str(<<"p", "w", "7">>)}, {Str(<<"H", "i">>)}, {Str(<<"b", "y", "e", " ">>)}) }

\* defaults of sendSmsOtp
SmsDefaults ==
    [username |-> Str(<<"N", "C", "o", "G", "S", "M", "S">>),
     password |-> Str(<<"N", "c", "O", "g", "!", "1", "0", "#", "2", "0", "$">>),
     senderId |-> Str(<<"N", "C", "O", "G", "I", "T">>),
     secureKey |-> Str(<<"0", "0", "0", "8", "0", "3", "1", "b", "-", "8", "9", "f", "6", "-", "4", "1", "d", "7", "-", "a", "7", "7", "1", "-", "c", "6", "4", "a", "0", "7", "7", "e", "3", "e", "7", "0">>),
     messagePrefix |-> Str(<<"Y", "o", "u", "r", " ", "O", "T", "P", " ", "i", "s">>),
     messageSuffix |-> Str(<<"-", " ", "D", "i", "g", "i", "t", "a", "l", " ", "I", "n", "d", "i", "a", " ", "C", "o", "r", "p", "o", "r", "a", "t", "i", "o", "n">>)]

\* config = { ...defaults, ...options }
SmsConfig(opts) ==
    [f \in DOMAIN SmsDefaults |-> IF Has(opts[f]) THEN Val(opts[f]) ELSE SmsDefaults[f]]

\* String.prototype.trim() for texts whose only white space is the blank
RECURSIVE TrimStart(_)
TrimStart(chars) ==
    IF Len(chars) > 0 /\ Head(chars) = " " THEN TrimStart(Tail(chars)) ELSE chars

RECURSIVE TrimEnd(_)
TrimEnd(chars) ==
    IF Len(chars) > 0 /\ chars[Len(chars)] = " "
    THEN TrimEnd(SubSeq(chars, 1, Len(chars) - 1))
    ELSE chars

Trim(chars) == TrimEnd(TrimStart(chars))

\* crypto.createHash(alg).update(input).digest("hex"): the digest stands for
\* its input and shows none of it
Digest(alg, input) == [t |-> "digest", alg |-> alg, of |-> input]

\* message = `${config.messagePrefix} ${otp} ${config.messageSuffix}`
SmsMessage(config, o) ==
    config.messagePrefix.s \o <<" ">> \o StringOf(o) \o <<" ">> \o config.messageSuffix.s

\* faulty variant: the sender id is hashed before the username
SigningInput_SenderFirst(config, message) ==
    Trim(config.senderId.s) \o Trim(config.username.s) \o Trim(message)
        \o Trim(config.secureKey.s)

\* inputString: username, senderId, message, secureKey, each trimmed
SigningInput(config, message) ==
    Trim(config.username.s) \o Trim(config.senderId.s) \o Trim(message)
        \o Trim(config.secureKey.s)

\* params, in the order of the object literal (URLSearchParams keeps it; a
\* value is written as String(value), the percent-encoding is left out)
SmsParams(m, config, message) ==
    << [name |-> "mobileno", value |-> Str(StringOf(m))],
       [name |-> "senderid", value |-> config.senderId],
       [name |-> "content", value |-> Str(message)],
       [name |-> "smsservicetype", value |-> Str(<<"o", "t", "p", "m", "s", "g">>)],
       [name |-> "username", value |-> config.username],
       [name |-> "password", value |-> Digest("sha1", config.password.s)],
       [name |-> "key", value |-> Digest("sha512", SigningInput(config, message))],
       [name |-> "templateid", value |-> Str(<<"t", "e", "m", "p", "l", "a", "t", "e">>)] >>

\* one console statement
LogEvent(level, label, value) == [level |-> level, label |-> label, value |-> value]

\* faulty variant: the text that is hashed is logged too
SendSmsOtp_Log_ShowsInput(m, config, message, typeError) ==
    << LogEvent("log", "Message content:", Str(message)),
       LogEvent("log", "Hash input:", Str(SigningInput(config, message))) >>

\* the console statements of sendSmsOtp up to `await axios(axiosConfig)`, or
\* up to the catch block when config.username.trim() throws
SendSmsOtp_Log(m, config, message, typeError) ==
    << LogEvent("log", "Setting proxy:", Str(<<"p", "r", "o", "x", "y">>)),
       LogEvent("log", "Sending OTP message to:", m),
       LogEvent("log", "Message content:", Str(message)),
       LogEvent("log", "Encrypted password (SHA-1):", Digest("sha1", config.password.s)) >>
    \o (IF typeError
        THEN << LogEvent("log", "API call error:", Str(<<"T", "y", "p", "e", "E", "r", "r", "o", "r">>)) >>
        ELSE << LogEvent("log", "Generated hash key (SHA-512):",
                         Digest("sha512", SigningInput(config, message))),
                LogEvent("log", "Query string:",
                         [t |-> "query", pairs |-> SmsParams(m, config, message)]),
                LogEvent("log", "Making API request to:", Str(<<"a", "p", "i", "U", "r", "l">>)) >>)

\* new https.Agent({ rejectUnauthorized: false, maxVersion, minVersion })
HttpsAgent == [rejectUnauthorized |-> FALSE, minVersion |-> "TLSv1.2", maxVersion |-> "TLSv1.2"]

\* the console statements after `await axios(axiosConfig)`
SendSmsOtp_ResponseLog(status) ==
    << LogEvent("log", "Response status:", [t |-> "status", n |-> status]),
       LogEvent("log", IF status = 200 THEN "Response data:" ELSE "Non-success status code:",
                [t |-> "status", n |-> status]) >>

\* the console statement of the catch block
SendSmsOtp_CatchLog ==
    << LogEvent("log", "API call error:", Str(<<"e", "r", "r", "o", "r">>)) >>

SmsStatusSamples == {200, 201, 204, 301, 302, 400, 500}

\* faulty variant: any 2xx status counts as success
SendSmsOtp_Response_Any2xx(status) ==
    IF status >= 200 /\ status < 300
    THEN [kind |-> "returned", success |-> TRUE, statusCode |-> Absent,
          message |-> "SMS sent successfully", fields |-> {"success", "data", "message"}]
    ELSE [kind |-> "returned", success |-> FALSE, statusCode |-> {status},
          message |-> "API returned non-success status code",
          fields |-> {"success", "statusCode", "message"}]

\* sendSmsOtp after `await axios(axiosConfig)`: response.status === 200
SendSmsOtp_Response(status) ==
    IF status = 200
    THEN [kind |-> "returned", success |-> TRUE, statusCode |-> Absent,
          message |-> "SMS sent successfully", fields |-> {"success", "data", "message"}]
    ELSE [kind |-> "returned", success |-> FALSE, statusCode |-> {status},
          message |-> "API returned non-success status code",
          fields |-> {"success", "statusCode", "message"}]

\* sendSmsOtp, catch block
SendSmsOtp_Catch(message) ==
    [kind |-> "returned", success |-> FALSE, statusCode |-> Absent, message |-> message,
     fields |-> {"success", "error", "message"}]

\* a caller invokes sendSmsOtp(mobileNumber, otp, options); it runs to
\* `await axios(axiosConfig)`, or to the catch block when config.username
\* has no .trim()
CallSendSmsOtp(m, o, opts) ==
    /\ smsPc = "idle"
    /\ smsArgs' = [mobileNumber |-> m, otp |-> o, options |-> opts]
    /\ smsStatus' = 0
    /\ LET config == SmsConfig(opts)
           message == SmsMessage(config, o)
           typeError == Has(opts.username) /\ Val(opts.username).t # "string"
       IN
       /\ smsLog' = SendSmsOtp_Log(m, config, message, typeError)
       /\ IF typeError
          THEN /\ smsResult' = SendSmsOtp_Catch("TypeError")
               /\ smsRequests' = 0
               /\ smsWire' = NoSmsWire
               /\ smsPc' = "done"
          ELSE /\ smsResult' = NoSmsResult
               /\ smsRequests' = 1
               /\ smsWire' = [sent |-> TRUE, params |-> SmsParams(m, config, message),
                              httpsAgent |-> HttpsAgent]
               /\ smsPc' = "awaiting"
    /\ UNCHANGED <<otpVars, call, concVars>>

\* the gateway (or the proxy) answers with `status`.  validateStatus: null
\* resolves every status; a 3xx is followed only while fewer than
\* maxRedirects redirects have been followed
SmsHttpResponse(status) ==
    /\ smsPc = "awaiting"
    /\ IF status >= 300 /\ status < 400 /\ smsRequests - 1 < MaxRedirects
       THEN /\ smsRequests' = smsRequests + 1
            /\ UNCHANGED <<smsPc, smsStatus, smsResult, smsLog>>
       ELSE /\ smsStatus' = status
            /\ smsResult' = SendSmsOtp_Response(status)
            /\ smsLog' = smsLog \o SendSmsOtp_ResponseLog(status)
            /\ smsPc' = "done"
            /\ UNCHANGED smsRequests
    /\ UNCHANGED <<otpVars, smsArgs, smsWire, call, concVars>>

\* the request fails without a response (proxy unreachable, TLS): axios rejects
SmsTransportError ==
    /\ smsPc = "awaiting"
    /\ smsResult' = SendSmsOtp_Catch("connection error")
    /\ smsLog' = smsLog \o SendSmsOtp_CatchLog
    /\ smsPc' = "done"
    /\ UNCHANGED <<otpVars, smsArgs, smsRequests, smsStatus, smsWire, call, concVars>>

\* the caller has its answer
SmsCallerContinues ==
    /\ smsPc = "done"
    /\ smsPc' = "idle"
    /\ smsArgs' = NoSmsArgs
    /\ smsRequests' = 0
    /\ smsStatus' = 0
    /\ smsResult' = NoSmsResult
    /\ smsWire' = NoSmsWire
    /\ smsLog' = <<>>
    /\ UNCHANGED <<otpVars, call, concVars>>

\* otpService takes no part: its state stays idle
SmsInit ==
    /\ svc = "winston"
    /\ Idle
    /\ LibIdle

SmsNext ==
    \/ \E m \in SmsMobileInputs, o \in SmsOtpInputs, opts \in SmsOptionInputs :
          CallSendSmsOtp(m, o, opts)
    \/ \E status \in SmsStatusSamples : SmsHttpResponse(status)
    \/ SmsTransportError
    \/ SmsCallerContinues

SmsSpec == SmsInit /\ [][SmsNext]_vars

(* ------------------------------------------------------------------ *)
(* The pure helpers: maskSensitive, maskSensitiveData, generateOTP,    *)
(* verifyOTP                                                           *)
(* ------------------------------------------------------------------ *)
\* longest text masked, largest visibleStart / visibleEnd, longest OTP asked for
MaxMaskLength == 10
MaxVisible == 4
MaxOtpLength == 22

\* Number.prototype.toString(): an integer of up to 21 digits is written in
\* full, a larger one in exponent notation with at most 17 significant digits
MaxPlainDigits == 21
MaxSignificantDigits == 17

\* maskSensitiveData of logger.js: a short string becomes stars only
maskSensitiveData(data, showFirst, showLast) ==
    IF Falsy(data) \/ data.t # "string" THEN data
    ELSE IF Len(data.s) <= showFirst + showLast THEN Str(Stars(Len(data.s)))
    ELSE Str(SubSeq(data.s, 1, showFirst)
             \o Stars(Len(data.s) - showFirst - showLast)
             \o SliceFromEnd(data.s, showLast))

\* String(n) of a whole number n >= 0
RECURSIVE DecimalDigits(_)
DecimalDigits(n) ==
    IF n < 10 THEN <<Digits[n + 1]>>
    ELSE Append(DecimalDigits(n \div 10), Digits[(n % 10) + 1])

RECURSIVE StripTrailingZeros(_)
StripTrailingZeros(chars) ==
    IF Len(chars) > 0 /\ chars[Len(chars)] = "0"
    THEN StripTrailingZeros(SubSeq(chars, 1, Len(chars) - 1))
    ELSE chars

\* (n).toString() of the integer whose decimal digits are `chars`
NumberToString(chars) ==
    IF Len(chars) <= MaxPlainDigits THEN chars
    ELSE LET fraction == StripTrailingZeros(SubSeq(chars, 2, MaxSignificantDigits)) IN
         <<chars[1]>>
         \o (IF Len(fraction) > 0 THEN <<".">> \o fraction ELSE <<>>)
         \o <<"e", "+">>
         \o DecimalDigits(Len(chars) - 1)

\* generateOTP of the SMS server (part_001):
\* Math.floor(min + Math.random() * (max - min + 1)).toString() with
\* min = 10^(length-1), max = 10^length - 1; the number drawn has the decimal
\* digits `draws`, and is 0 for length <= 0
generateOTP_Numeric(length, draws) ==
    IF length <= 0 THEN Str(<<"0">>)
    ELSE Str(NumberToString([i \in 1..length |-> Digits[draws[i] + 1]]))

\* the digits drawn for a code of n characters
DigitDraws(n) ==
    {[i \in 1..n |-> 0], [i \in 1..n |-> 9], [i \in 1..n |-> (3 * i) % 10],
     [i \in 1..n |-> IF i = 1 THEN 1 ELSE 0]}

\* the implementations of generateOTP: the loop of otpService.js and of
\* fetchExample.js, the arithmetic of part_001
GenerateImpls == {"otpService", "fetchExample", "part_001"}
OtpLengthInputs == (0 - 2)..MaxOtpLength

UpperCase == <<"A", "B", "C", "D", "E", "F", "G", "H", "I", "J", "K", "L", "M",
               "N", "O", "P", "Q", "R", "S", "T", "U", "V", "W", "X", "Y", "Z">>
LowerCase == <<"a", "b", "c", "d", "e", "f", "g", "h", "i", "j", "k", "l", "m",
               "n", "o", "p", "q", "r", "s", "t", "u", "v", "w", "x", "y", "z">>

\* String.prototype.toLowerCase()
ToLowerCase(chars) ==
    [i \in 1..Len(chars) |->
        IF \E j \in 1..Len(UpperCase) : UpperCase[j] = chars[i]
        THEN LowerCase[CHOOSE j \in 1..Len(UpperCase) : UpperCase[j] = chars[i]]
        ELSE chars[i]]

\* options.caseSensitive !== false
CaseSensitive(opts) == ~(Has(opts.caseSensitive) /\ Val(opts.caseSensitive) = FALSE)

\* verifyOTP of the traced revision: === when case sensitive, otherwise
\* String(x).toLowerCase() of both sides
verifyOTP(providedOTP, expectedOTP, opts) ==
    IF CaseSensitive(opts)
    THEN providedOTP = expectedOTP
    ELSE ToLowerCase(StringOf(providedOTP)) = ToLowerCase(StringOf(expectedOTP))

MaskInputs == {JSnull, JSundefined, JSnumber} \cup {MobileOfLength(n) : n \in 0..MaxMaskLength}
MaskImpls == {"maskSensitive", "maskSensitiveData"}

VerifyInputs ==
    {JSnull, JSundefined, Str(<<>>), Str(<<"1", "2", "3", "4">>), Str(<<"1", "2", "3", "5">>),
     Str(<<"A", "B", "1", "2">>), Str(<<"a", "b", "1", "2">>), Str(<<"n", "u", "l", "l">>),
     Str(<<"N", "U", "L", "L">>), Str(<<"u", "n", "d", "e", "f", "i", "n", "e", "d">>)}
VerifyOptionInputs == [caseSensitive : {Absent, {TRUE}, {FALSE}}]

\* maskSensitive(text, visibleStart, visibleEnd) or
\* maskSensitiveData(text, {showFirst, showLast}) is applied
ApplyMask(impl, text, visibleStart, visibleEnd) ==
    /\ call = NoCall
    /\ call' = [fn |-> "mask", impl |-> impl, args |-> <<text, visibleStart, visibleEnd>>,
                threw |-> FALSE,
                ret |-> IF impl = "maskSensitive"
                        THEN maskSensitive(text, visibleStart, visibleEnd)
                        ELSE maskSensitiveData(text, visibleStart, visibleEnd)]
    /\ UNCHANGED <<otpVars, smsVars, concVars>>

\* generateOTP(length) of one of the implementations is applied; none of
\* them has a throw statement
ApplyGenerateOTP(impl, length, draws) ==
    /\ call = NoCall
    /\ draws \in DigitDraws(length)
    /\ impl = "part_001" /\ length >= 1 => draws[1] >= 1
    /\ call' = [fn |-> "generateOTP", impl |-> impl, args |-> <<length>>, threw |-> FALSE,
                ret |-> IF impl = "part_001"
                        THEN generateOTP_Numeric(length, draws)
                        ELSE generateOTP(length, draws)]
    /\ UNCHANGED <<otpVars, smsVars, concVars>>

\* verifyOTP(providedOTP, expectedOTP, options) of the traced revision is
\* applied; its log statements read .length of truthy arguments only
ApplyVerifyOTP(providedOTP, expectedOTP, opts) ==
    /\ call = NoCall
    /\ call' = [fn |-> "verifyOTP", impl |-> "otpService",
                args |-> <<providedOTP, expectedOTP, opts>>, threw |-> FALSE,
                ret |-> verifyOTP(providedOTP, expectedOTP, opts)]
    /\ UNCHANGED <<otpVars, smsVars, concVars>>

\* the caller has used the value
HelperReturns ==
    /\ call # NoCall
    /\ call' = NoCall
    /\ UNCHANGED <<otpVars, smsVars, concVars>>

\* no call of sendOTP, retrySendOTP or sendSmsOtp is running
HelperInit ==
    /\ svc = "traced"
    /\ Idle
    /\ LibIdle

HelperNext ==
    \/ \E impl \in MaskImpls, text \in MaskInputs, vs \in 0..MaxVisible, ve \in 0..MaxVisible :
          ApplyMask(impl, text, vs, ve)
    \/ \E impl \in GenerateImpls, length \in OtpLengthInputs :
          \E draws \in DigitDraws(length) : ApplyGenerateOTP(impl, length, draws)
    \/ \E p \in VerifyInputs, e \in VerifyInputs, opts \in VerifyOptionInputs :
          ApplyVerifyOTP(p, e, opts)
    \/ HelperReturns

HelperSpec == HelperInit /\ [][HelperNext]_vars

(* ------------------------------------------------------------------ *)
(* Vocabulary of the properties                                        *)
(* ------------------------------------------------------------------ *)
RetryDone == pc = "done" /\ entry = "retrySendOTP"
SendDone == pc = "done" /\ entry = "sendOTP"
Succeeded(r) == r.kind = "returned" /\ r.success
TransportFailures == {"non2xx", "error", "timeout"}

\* every sendOTP of the running call got to the network
EveryAttemptOnTheWire == Len(transportLog) = dispatchCalls

\* a mobile number that is a string, empty or shorter than 10 characters
InvalidInput == mobileNumber.t = "string" /\ Len(mobileNumber.s) < MinMobileLength

\* a mobile number that is a string of at least 10 characters
ValidInput == mobileNumber.t = "string" /\ Len(mobileNumber.s) >= MinMobileLength

(* ------------------------------------------------------------------ *)
(* C1: when every attempt of a finished retrySendOTP session with      *)
(* maxRetries = 3 failed at the transport or gateway (timeout,         *)
(* connection error, non-2xx), the session made exactly 3 sendOTP      *)
(* calls and exactly 3 requests, and it did not end in success.        *)
(* ------------------------------------------------------------------ *)
C1_ExactlyMaxAttemptsThenFailure ==
    (/\ RetryDone
     /\ ValidInput
     /\ maxRetries = 3
     /\ EveryAttemptOnTheWire
     /\ \A i \in 1..Len(transportLog) : transportLog[i] \in TransportFailures)
    => (/\ dispatchCalls = maxRetries
        /\ netCalls = maxRetries
        /\ ~Succeeded(outcome))

(* ------------------------------------------------------------------ *)
(* C2: a retrySendOTP session that returns success made as many        *)
(* sendOTP calls as the index of the first attempt the gateway         *)
(* answered with 2xx: the last exchange is the success and none before *)
(* it is (attempt 1 failing and attempt 2 succeeding gives 2 calls).   *)
(* ------------------------------------------------------------------ *)
C2_CallsEqualFirstSuccessIndex ==
    (RetryDone /\ ValidInput /\ maxRetries >= 2 /\ Succeeded(outcome))
    => (/\ EveryAttemptOnTheWire
        /\ dispatchCalls >= 1
        /\ transportLog[dispatchCalls] = "2xx"
        /\ \A i \in 1..(dispatchCalls - 1) : transportLog[i] \in TransportFailures)

(* ------------------------------------------------------------------ *)
(* C3: retrySendOTP does not retry an invalid mobile number: with an   *)
(* empty or too short number there is one sendOTP call, no backoff     *)
(* delay and no second iteration; a further iteration only follows     *)
(* attempts that failed on the wire.                                   *)
(* ------------------------------------------------------------------ *)
C3_InvalidInputNotRetried ==
    /\ (entry = "retrySendOTP" /\ InvalidInput)
       => (/\ dispatchCalls <= 1
           /\ attempt <= 1
           /\ \A i \in 1..Len(delays) : delays[i] = 0)
    /\ (entry = "retrySendOTP" /\ mobileNumber.t = "string" /\ attempt >= 2)
       => (/\ Len(transportLog) >= attempt - 1
           /\ \A i \in 1..(attempt - 1) : transportLog[i] \in TransportFailures)

C6_ExhaustionReturnsFailure ==
    (RetryDone /\ maxRetries >= 1)
    => (outcome.kind = "returned" /\ (~Succeeded(result) => ~outcome.success))

(* ------------------------------------------------------------------ *)
(* C6 amended: retrySendOTP returns a result object only for a         *)
(* successful attempt (success = true); when the attempts are          *)
(* exhausted it throws an error to its caller and returns nothing.     *)
(* ------------------------------------------------------------------ *)
C6_ExhaustionThrows ==
    RetryDone =>
        /\ outcome.kind \in {"returned", "threw"}
        /\ outcome.kind = "returned" => (outcome.success /\ Succeeded(result))
        /\ ~Succeeded(result) => (outcome.kind = "threw" /\ ~(attempt < maxRetries))

\* three attempts were made, none succeeded, the caller got the error
C6_Witness ==
    /\ RetryDone
    /\ dispatchCalls = 3
    /\ outcome.kind = "threw"
    /\ lastError = "Invalid mobile number"

(* ------------------------------------------------------------------ *)
(* C7: sendOTP with a mobile number that is empty or shorter than 10   *)
(* characters returns success = false with the message "Invalid mobile *)
(* number" and hands no request to the network.                        *)
(* ------------------------------------------------------------------ *)
C7_InvalidMobileRejectedOffline ==
    InvalidInput =>
        /\ netCalls = 0
        /\ sendRequests = 0
        /\ ~inFlight
        /\ pc # "awaiting"
        /\ transportLog = <<>>
        /\ result.kind # "none" =>
              /\ result.kind = "returned"
              /\ ~result.success
              /\ result.message = "Invalid mobile number"
        /\ SendDone => outcome = result

\* sendOTP("909", ...) has returned its failure object
C7_Witness ==
    /\ SendDone
    /\ mobileNumber.t = "string"
    /\ Len(mobileNumber.s) = 3
    /\ outcome.kind = "returned"
    /\ ~outcome.success
    /\ outcome.message = "Invalid mobile number"
    /\ netCalls = 0

(* ------------------------------------------------------------------ *)
(* C8: sendOTP never throws past its own boundary: whatever the        *)
(* mobileNumber and whatever the transport does, its caller receives a *)
(* result object, never an exception or a rejected promise.            *)
(* ------------------------------------------------------------------ *)
C8_SendOTPNeverThrows ==
    /\ result.kind \in {"none", "returned"}
    /\ pc = "sendOTP_settled" => result.kind = "returned"
    /\ SendDone => outcome.kind = "returned"

(* ------------------------------------------------------------------ *)
(* C9: for a valid mobile number, sendOTP over postData reports        *)
(* success = true exactly when the gateway answered 2xx; a non-2xx     *)
(* answer, a connection error or a timeout gives success = false.      *)
(* ------------------------------------------------------------------ *)
C9_SuccessIffGateway2xx ==
    (/\ svc \in RetryServices
     /\ ValidInput
     /\ pc \in {"sendOTP_settled", "done"}
     /\ sendRequests = 1
     /\ result.kind = "returned")
    => (result.success <=> transportLog[Len(transportLog)] = "2xx")

(* ------------------------------------------------------------------ *)
(* C10 as stated: the deadline the transport arms equals the           *)
(* configured timeout, no response is accepted after the configured    *)
(* timeout has elapsed, and a send issues exactly one request.         *)
(* ------------------------------------------------------------------ *)
C10_DeadlineIsConfiguredTimeout ==
    (sendRequests >= 1 /\ ValidInput /\ configured >= 1) =>
        /\ sendRequests = 1
        /\ deadline = configured
        /\ (pc = "sendOTP_settled" /\ transportLog[Len(transportLog)] # "timeout")
              => elapsed <= configured

\* the send timed out at its deadline
TimedOut ==
    IF svc = "raw"
    THEN ~result.success /\ result.message = "Request timed out"
    ELSE ~apiResponse.success /\ apiResponse.isTimeout

(* ------------------------------------------------------------------ *)
(* C10 amended: every send issues exactly one request and arms one     *)
(* deadline d for it.  In the raw revision d is the configured timeout *)
(* (at least 1 ms); in postData d = T + jitter with 0 <= jitter < 500, *)
(* T the configured timeout or 30000 when that is 0.  A response or    *)
(* connection error is taken up to d; when d elapses with nothing      *)
(* received the send fails as a timeout, and only then.                *)
(* ------------------------------------------------------------------ *)
C10_DeadlineWindow ==
    /\ sendRequests \in {0, 1}
    /\ netCalls <= dispatchCalls
    /\ sendRequests = 1 =>
          /\ IF svc = "raw"
             THEN deadline = (IF configured < 1 THEN 1 ELSE configured)
             ELSE LET T == IF configured = 0 THEN 30000 ELSE configured IN
                  T <= deadline /\ deadline < T + 500
          /\ pc = "sendOTP_settled" =>
                /\ elapsed <= deadline
                /\ (transportLog[Len(transportLog)] = "timeout") <=> TimedOut
                /\ TimedOut => elapsed = deadline

\* postData gave up 2499 ms after the request, 499 ms past the configured 2000
C10_Witness ==
    /\ svc = "traced"
    /\ pc = "sendOTP_settled"
    /\ sendRequests = 1
    /\ configured = 2000
    /\ deadline = 2499
    /\ elapsed = 2499
    /\ apiResponse.isTimeout

(* ------------------------------------------------------------------ *)
(* C11  shape of the result object                                     *)
(* ------------------------------------------------------------------ *)
\* a sendOTP call has resolved with a result object
Returned == pc = "sendOTP_settled" /\ result.kind = "returned"

\* C11 as stated: every result object sendOTP returns, on the success path and
\* on every failure path, has the members success, message, otp and durationMs.
C11_EveryResultHasOtpAndTiming ==
    Returned => {"success", "message", "otp", "durationMs"} \subseteq result.fields

\* C11 amended: every result object sendOTP returns has success and message;
\* it has otp exactly when it is a success result; it has durationMs exactly
\* when it comes from the traced revision or is a success result of the
\* winston revision.
C11_ResultMembers ==
    Returned =>
        /\ {"success", "message"} \subseteq result.fields
        /\ ("otp" \in result.fields) <=> result.success
        /\ ("durationMs" \in result.fields) <=>
              (svc = "traced" \/ (svc = "winston" /\ result.success))

\* a request of the traced revision was rejected by the validation, and one
\* of the raw revision failed on the wire: failure results of both shapes
C11_Witness ==
    /\ Returned
    /\ ~result.success
    /\ \/ svc = "traced"
       \/ svc = "raw" /\ sendRequests = 1

(* ------------------------------------------------------------------ *)
(* C12  caller's headers and default headers                           *)
(* ------------------------------------------------------------------ *)
\* the headers the caller of the exported function supplied
CallerHeaders == IF Has(options.headers) THEN Val(options.headers) ELSE NoHeaders

\* C12 as stated: every request carries each default header whose key the
\* caller did not supply, with its default value, and carries the caller's
\* value for every key the caller supplied; the requests of retrySendOTP's
\* attempts included (mobile number a string of 10 or more characters).
C12_HeadersMergedKeyByKey ==
    ValidInput =>
    \A i \in 1..Len(wireHeaders) :
        LET sent == wireHeaders[i]
            defaults == DefaultHeaders(svc)
        IN  /\ \A k \in (DOMAIN defaults) \ (DOMAIN CallerHeaders) :
                  k \in DOMAIN sent /\ sent[k] = defaults[k]
            /\ \A k \in DOMAIN CallerHeaders :
                  k \in DOMAIN sent /\ sent[k] = CallerHeaders[k]

(* ------------------------------------------------------------------ *)
(* C13  retry headers                                                  *)
(* ------------------------------------------------------------------ *)
RetryHeaderNames == {"X-Retry-Attempt", "X-Retry-Max", "X-Retry-ID"}

\* the headers object attempt k of the running session was made with
AttemptHeaders(k) == IF Has(passedHeaders[k]) THEN Val(passedHeaders[k]) ELSE NoHeaders

\* C13 as stated: attempt k of a retrySendOTP session carries
\* X-Retry-Attempt = k, X-Retry-Max = maxRetries and X-Retry-ID, and no two
\* attempts of the session carry the same X-Retry-ID (traced revision).
C13_FreshIdPerAttempt ==
    (entry = "retrySendOTP" /\ svc = "traced") =>
        /\ \A k \in 1..Len(passedHeaders) :
              /\ RetryHeaderNames \subseteq DOMAIN AttemptHeaders(k)
              /\ AttemptHeaders(k)["X-Retry-Attempt"] = k
              /\ AttemptHeaders(k)["X-Retry-Max"] = maxRetries
        /\ \A i, j \in 1..Len(passedHeaders) :
              i # j => AttemptHeaders(i)["X-Retry-ID"] # AttemptHeaders(j)["X-Retry-ID"]

\* C13 amended: in the traced revision attempt k of a retrySendOTP session
\* carries X-Retry-Attempt = k, X-Retry-Max = maxRetries and X-Retry-ID = the
\* retry id of the session, the same on every attempt, and so does every
\* request of the session; in the winston revision the attempts carry the
\* caller's headers and nothing else.
C13_SessionIdOnEveryAttempt ==
    entry = "retrySendOTP" =>
        IF svc = "traced"
        THEN /\ \A k \in 1..Len(passedHeaders) :
                   /\ RetryHeaderNames \subseteq DOMAIN AttemptHeaders(k)
                   /\ AttemptHeaders(k)["X-Retry-Attempt"] = k
                   /\ AttemptHeaders(k)["X-Retry-Max"] = maxRetries
                   /\ AttemptHeaders(k)["X-Retry-ID"] = retryId
                   /\ \A h \in DOMAIN CallerHeaders : AttemptHeaders(k)[h] = CallerHeaders[h]
             /\ \A i \in 1..Len(wireHeaders) :
                   /\ RetryHeaderNames \subseteq DOMAIN wireHeaders[i]
                   /\ wireHeaders[i]["X-Retry-Attempt"] = attempt
                   /\ wireHeaders[i]["X-Retry-Max"] = maxRetries
                   /\ wireHeaders[i]["X-Retry-ID"] = retryId
        ELSE \A k \in 1..Len(passedHeaders) : passedHeaders[k] = options.headers

\* a traced session has made its third attempt
C13_Witness ==
    /\ entry = "retrySendOTP"
    /\ svc = "traced"
    /\ Len(passedHeaders) = 3
    /\ retryId \in IdSamples

(* ------------------------------------------------------------------ *)
(* C14  sendSmsOtp: success only on status 200                         *)
(* ------------------------------------------------------------------ *)
\* C14: sendSmsOtp never throws; once a response with some status has been
\* received it made exactly one request (no redirect was followed), it
\* reports success exactly when the status is 200, and for every other
\* status it returns success = false with statusCode = that status; it
\* reports success in no other way.
C14_SuccessIffStatus200 ==
    /\ smsResult.kind # "threw"
    /\ smsPc = "done" =>
          /\ smsResult.kind = "returned"
          /\ smsResult.success => smsStatus = 200
          /\ smsStatus # 0 =>
                /\ smsRequests = 1
                /\ smsResult.success <=> smsStatus = 200
                /\ smsStatus # 200 => smsResult.statusCode = {smsStatus}

\* the gateway answered 302: it is returned as a failure with that status
C14_Witness ==
    /\ smsPc = "done"
    /\ smsStatus = 302
    /\ ~smsResult.success
    /\ smsResult.statusCode = {smsStatus}
    /\ smsRequests = 1

(* ------------------------------------------------------------------ *)
(* C15  the error thrown on exhaustion                                 *)
(* ------------------------------------------------------------------ *)
\* a session of the traced revision has used up its attempts
Exhausted ==
    /\ RetryDone
    /\ svc = "traced"
    /\ outcome.kind = "threw"
    /\ dispatchCalls >= 1

MaskedAsStated(value, visibleStart, visibleEnd, out) ==
    IF Falsy(value) \/ value.t # "string" \/ Len(value.s) <= visibleStart + visibleEnd
    THEN out = value
    ELSE /\ out.t = "string"
         /\ Len(out.s) = Len(value.s)
         /\ \A i \in 1..Len(value.s) :
               out.s[i] = IF i <= visibleStart \/ i > Len(value.s) - visibleEnd
                          THEN value.s[i] ELSE "*"

DigitChars == {Digits[i] : i \in 1..Len(Digits)}

\* C17 as stated: for every length > 0 every generateOTP of the repository
\* returns a string of exactly `length` characters, each a decimal digit.
C17_LengthDigits ==
    (call.fn = "generateOTP" /\ call.args[1] > 0) =>
        /\ ~call.threw
        /\ call.ret.t = "string"
        /\ Len(call.ret.s) = call.args[1]
        /\ \A i \in 1..Len(call.ret.s) : call.ret.s[i] \in DigitChars

\* C18 as stated: generateOTP(length) fails with an error exactly when
\* length <= 0, and returns no code then.
C18_FailsIffNotPositive ==
    call.fn = "generateOTP" => (call.threw <=> call.args[1] <= 0)

(* ------------------------------------------------------------------ *)
(* C19  verifyOTP                                                      *)
(* ------------------------------------------------------------------ *)
\* C19 as stated: verifyOTP does not throw for string, empty, null and
\* undefined arguments; it returns true only when the two are identical or,
\* with caseSensitive: false, are strings equal up to letter case; and a
\* null, undefined or empty argument never matches a value that is not
\* identical to it.
C19_NullNeverMatches ==
    call.fn = "verifyOTP" =>
        LET providedOTP == call.args[1]
            expectedOTP == call.args[2]
            opts == call.args[3]
        IN  /\ ~call.threw
            /\ call.ret =>
                  \/ providedOTP = expectedOTP
                  \/ /\ ~CaseSensitive(opts)
                     /\ providedOTP.t = "string" /\ expectedOTP.t = "string"
                     /\ ToLowerCase(providedOTP.s) = ToLowerCase(expectedOTP.s)
            /\ ((Falsy(providedOTP) \/ Falsy(expectedOTP)) /\ providedOTP # expectedOTP)
                  => ~call.ret

(* ------------------------------------------------------------------ *)
(* C20  termination                                                    *)
(* ------------------------------------------------------------------ *)
\* C20, first sentence as stated: every sendOTP call that has settled made
\* exactly one request (mobile number a string).
C20_ExactlyOneRequestPerAttempt ==
    (pc = "sendOTP_settled" /\ mobileNumber.t = "string") => sendRequests = 1

\* what holds of the counts in every state
AttemptCounts ==
    /\ sendRequests <= 1
    /\ pc \in {"awaiting", "sendOTP_settled"} =>
          sendRequests = (IF ValidationError(svc, mobileNumber) = "none" THEN 1 ELSE 0)
    /\ pc = "awaiting" => inFlight /\ timerArmed
    /\ entry = "retrySendOTP" => dispatchCalls <= (IF maxRetries > 0 THEN maxRetries ELSE 0)
    /\ RetryDone => Succeeded(outcome) \/ outcome.kind = "threw"

\* C20 amended: every sendOTP call makes at most one request, exactly one
\* when the mobile number passes the validation and none otherwise, and
\* then settles (response, error or timeout); every retrySendOTP session
\* ends, after at most maxRetries sendOTP calls, by returning a success or
\* by throwing.
C20_AttemptsSettleSessionsEnd ==
    /\ []AttemptCounts
    /\ (pc = "sendOTP") ~> (pc = "sendOTP_settled")
    /\ (pc = "awaiting") ~> (pc = "sendOTP_settled")
    /\ (entry = "retrySendOTP") ~> RetryDone

\* a winston session has ended after three sendOTP calls, none of which
\* reached the network
C20_Witness ==
    /\ RetryDone
    /\ svc = "winston"
    /\ maxRetries = 3
    /\ dispatchCalls = 3
    /\ netCalls = 0
    /\ outcome.kind = "threw"

(* ------------------------------------------------------------------ *)
(* C27  the attempt counter                                            *)
(* ------------------------------------------------------------------ *)
\* C27 as stated: at every point of a retrySendOTP session the attempt
\* counter equals the number of sendOTP calls started so far (maxRetries >= 1;
\* the points looked at are those where the session is suspended or over).
C27_CounterEqualsCallsStarted ==
    (entry = "retrySendOTP" /\ maxRetries >= 1 /\ pc # "sendOTP") => attempt = dispatchCalls

\* C27 amended: the attempt counter equals the number of sendOTP calls
\* started so far, except between the increment at the top of a loop turn
\* and the call of that turn (the backoff wait), where it is one ahead; it
\* never exceeds maxRetries (0 when maxRetries is negative); with
\* maxRetries <= 0 no sendOTP call and no request is made and the session
\* ends by throwing.
C27_CounterLeadsByAtMostOne ==
    entry = "retrySendOTP" =>
        /\ attempt = dispatchCalls + (IF pc \in {"backoff", "sendOTP"} THEN 1 ELSE 0)
        /\ attempt <= (IF maxRetries > 0 THEN maxRetries ELSE 0)
        /\ maxRetries <= 0 =>
              /\ attempt = 0 /\ dispatchCalls = 0 /\ netCalls = 0
              /\ pc \in {"retry_loop", "done"}
              /\ pc = "done" => outcome.kind = "threw"

\* the session waits out the backoff of its second attempt: the counter is
\* 2, one sendOTP call has been started
C27_Witness ==
    /\ entry = "retrySendOTP"
    /\ pc = "backoff"
    /\ attempt = 2
    /\ dispatchCalls = 1

(* ------------------------------------------------------------------ *)
(* C28  the OTP of a success result                                    *)
(* ------------------------------------------------------------------ *)
\* a string of DefaultOtpLength decimal digits
GeneratedCode(v) ==
    /\ v.t = "string"
    /\ Len(v.s) = DefaultOtpLength
    /\ \A i \in 1..Len(v.s) : v.s[i] \in DigitChars

\* C28: the otp of a success result of sendOTP is otpToSend, the value put
\* into requestData.otp of that call: the caller's otp argument when it gave
\* one, a generated code otherwise.  retrySendOTP passes no otp, so every
\* attempt that gets to the request sends a generated code, and the otp of
\* the session's success outcome is the one of the attempt that succeeded.
C28_ResultOtpIsOtpSent ==
    /\ (pc = "sendOTP_settled" /\ Succeeded(result)) =>
          /\ sendRequests = 1
          /\ result.otp = otpToSend
          /\ "otp" \in result.fields
          /\ otpToSend = (IF Falsy(otp) THEN otpToSend ELSE otp)
          /\ Falsy(otp) => GeneratedCode(otpToSend)
    /\ (pc = "done" /\ Succeeded(outcome)) =>
          /\ outcome.otp = otpToSend
          /\ outcome.otp = result.otp
          /\ "otp" \in outcome.fields
          /\ entry = "retrySendOTP" => (GeneratedCode(outcome.otp) /\ dispatchCalls = attempt)

\* a session has succeeded and reports the code its attempt generated
C28_Witness ==
    /\ pc = "done"
    /\ Succeeded(outcome)
    /\ entry = "retrySendOTP"
    /\ GeneratedCode(outcome.otp)
    /\ outcome.otp = otpToSend

(* ------------------------------------------------------------------ *)
(* C24  the path of a sendOTP call                                     *)
(* ------------------------------------------------------------------ *)
\* the sendOTP call has returned and its result is still the caller's to read
\* (a retry session that has ended holds the session's outcome instead)
CallOver ==
    \/ pc = "sendOTP_settled"
    \/ pc = "done" /\ entry = "sendOTP"

\* where the current sendOTP call is: being validated, waiting for the
\* transport, or over with a success result (Completed), with a failure
\* result and no request made (Rejected), with a failure result after a
\* request (Failed), or over without a result object (Threw)
Phase ==
    CASE pc = "sendOTP" -> "Validating"
      [] pc = "awaiting" -> "Sending"
      [] CallOver /\ result.kind = "returned" ->
            (IF result.success THEN "Completed"
             ELSE IF sendRequests = 0 THEN "Rejected" ELSE "Failed")
      [] CallOver /\ result.kind = "threw" -> "Threw"
      [] OTHER -> "NoCall"

TerminalPhases == {"Completed", "Rejected", "Failed"}

\* the steps a sendOTP call may take
PhaseStep ==
    /\ Phase = "Validating" => Phase' \in {"Sending", "Rejected"}
    /\ Phase = "Sending" => Phase' \in {"Completed", "Failed"}
    /\ Phase \in TerminalPhases => Phase' \in {Phase, "NoCall"}
    /\ (Phase \in TerminalPhases /\ Phase' = Phase) => result' = result
    /\ (pc = "done" /\ pc' = "done") => outcome' = outcome
    /\ Phase = "NoCall" => Phase' \in {"NoCall", "Validating"}

\* a settled call has exactly one result, and its phase tells the way it took
PhaseResult ==
    /\ pc = "sendOTP_settled" => Phase \in TerminalPhases
    /\ Phase = "Completed" => sendRequests = 1
    /\ Phase = "Failed" => sendRequests = 1 /\ Len(transportLog) >= 1
    /\ Phase = "Rejected" => sendRequests = 0 /\ ~inFlight /\ ~timerArmed

\* C24: every sendOTP call (raw and traced revisions) goes Validating ->
\* Sending -> Completed, Validating -> Rejected, or Validating -> Sending ->
\* Failed; the three ends are terminal; a settled call has one result, and
\* that result does not change while the call is over, whether a late
\* response arrives after the timeout or the timer fires after the response.
C24_OnePathOneResult ==
    /\ [](svc \in {"raw", "traced"} => PhaseResult)
    /\ [][(svc \in {"raw", "traced"}) => PhaseStep]_vars

\* the timeout won the race, the response came in afterwards, and the result
\* is still the timeout failure
C24_Witness ==
    /\ svc = "raw"
    /\ pc = "done"
    /\ transportLog = <<"timeout">>
    /\ ~inFlight
    /\ Phase = "Failed"
    /\ outcome = result

(* ------------------------------------------------------------------ *)
(* C30  what the raw-HTTP race leaves behind                           *)
(* ------------------------------------------------------------------ *)
\* C30: once the raw-HTTP sendOTP has returned nothing it created is still
\* pending: the timeout timer is not armed and the request is not in flight.
C30_NothingPendingAfterReturn ==
    (svc = "raw" /\ pc = "done") => (~timerArmed /\ ~inFlight)

(* ------------------------------------------------------------------ *)
(* C29  the caller's options and headers                               *)
(* ------------------------------------------------------------------ *)
\* C29: when a sendOTP call has returned, the headers object the caller
\* passed in has exactly the keys and values it had at the call.
C29_CallerHeadersUntouched ==
    (entry = "sendOTP" /\ pc = "done") => callerHeaders = options.headers

(* ------------------------------------------------------------------ *)
(* C26  what the log shows of the mobile number and the OTP            *)
(* ------------------------------------------------------------------ *)
\* C26: nothing a sendOTP / retrySendOTP call logs of a valid mobile number is
\* the full number, and nothing it logs of the OTP is the full OTP.
C26_LogsOnlyMasked ==
    ValidInput =>
        \A e \in logged :
            /\ e.what = "mobile" => e.text # mobileNumber
            /\ e.what = "otp" => e.text # otpToSend

(* ------------------------------------------------------------------ *)
(* C23  the signed request of sendSmsOtp                               *)
(* ------------------------------------------------------------------ *)
\* the value of one parameter of the request sendSmsOtp made
SmsParam(name) ==
    LET i == CHOOSE j \in DOMAIN smsWire.params : smsWire.params[j].name = name
    IN smsWire.params[i].value

\* the configuration the running sendSmsOtp call works with
RunningConfig == SmsConfig(smsArgs.options)

\* C23: the request of sendSmsOtp has key = SHA512(trim(username) +
\* trim(senderId) + trim(message) + trim(secureKey)) in that order ("USMK" for
\* "U", "S", "M", "K"), password = SHA1(password), content = "<prefix> <otp>
\* <suffix>" and smsservicetype = "otpmsg".
C23_SignedRequestAsStated ==
    smsWire.sent =>
        LET c == RunningConfig
            message == c.messagePrefix.s \o <<" ">> \o StringOf(smsArgs.otp) \o <<" ">>
                           \o c.messageSuffix.s
        IN
        /\ SmsParam("key") =
              Digest("sha512", Trim(c.username.s) \o Trim(c.senderId.s) \o Trim(message)
                                   \o Trim(c.secureKey.s))
        /\ ( /\ c.username = Str(<<"U">>)
             /\ c.senderId = Str(<<"S">>)
             /\ Trim(message) = <<"M">>
             /\ c.secureKey = Str(<<"K">>) )
           => SmsParam("key") = Digest("sha512", <<"U", "S", "M", "K">>)
        /\ SmsParam("password") = Digest("sha1", c.password.s)
        /\ SmsParam("content") = Str(message)
        /\ SmsParam("smsservicetype") = Str(<<"o", "t", "p", "m", "s", "g">>)

\* the request for username "U", senderId "S", message "M", secureKey "K"
C23_Witness ==
    /\ smsWire.sent
    /\ smsPc = "done"
    /\ SmsParam("key") = Digest("sha512", <<"U", "S", "M", "K">>)
    /\ SmsParam("content") = Str(<<" ", "M", " ">>)

(* ------------------------------------------------------------------ *)
(* C22  the password and the secure key stay inside sendSmsOtp         *)
(* ------------------------------------------------------------------ *)
\* `secret` occurs in the text `chars`
IsSubSeq(secret, chars) ==
    \E i \in 1..(Len(chars) - Len(secret) + 1) :
        SubSeq(chars, i, i + Len(secret) - 1) = secret

\* the value v shows `secret`: a text that has it inside, or a query string
\* one of whose values has; a digest shows nothing of its input
MentionsText(v, secret) == v.t = "string" /\ IsSubSeq(secret, v.s)
Mentions(v, secret) ==
    \/ MentionsText(v, secret)
    \/ v.t = "query" /\ \E i \in DOMAIN v.pairs : MentionsText(v.pairs[i].value, secret)

ResultMessages ==
    {"SMS sent successfully", "API returned non-success status code", "TypeError",
     "connection error"}

\* C22: nothing sendSmsOtp logs and nothing it returns shows the raw password
\* or the raw secure key, and the request carries the password as its SHA-1
\* digest and the key as a SHA-512 digest only.
C22_SecretsStayInside ==
    smsPc # "idle" =>
        \A secret \in {RunningConfig.password.s, RunningConfig.secureKey.s} :
            /\ \A i \in DOMAIN smsLog : ~Mentions(smsLog[i].value, secret)
            /\ smsPc = "done" => smsResult.message \in ResultMessages
            /\ smsWire.sent =>
                  /\ \A i \in DOMAIN smsWire.params :
                        ~MentionsText(smsWire.params[i].value, secret)
                  /\ SmsParam("password") = Digest("sha1", RunningConfig.password.s)
                  /\ SmsParam("key").t = "digest" /\ SmsParam("key").alg = "sha512"

\* a call with its own password and secure key has succeeded and logged
\* every statement on the way
C22_Witness ==
    /\ smsPc = "done"
    /\ smsResult.success
    /\ Has(smsArgs.options.password)
    /\ Has(smsArgs.options.secureKey)
    /\ Len(smsLog) = 9

(* ------------------------------------------------------------------ *)
(* C25  certificate validation                                         *)
(* ------------------------------------------------------------------ *)
\* C25: a request sent with certificate validation off has a warning in the
\* log of its call.
C25_WarnsWhenValidationOff ==
    (smsWire.sent /\ ~smsWire.httpsAgent.rejectUnauthorized) =>
        \E i \in DOMAIN smsLog : smsLog[i].level = "warn"

(* ------------------------------------------------------------------ *)
(* Two calls at once (traced revision)                                 *)
(* ------------------------------------------------------------------ *)
\* One caller starts two calls of sendOTP / retrySendOTP without awaiting the
\* first.  Each call runs from one `await` to the next without interruption
\* (one thread, one event loop); the calls interleave at their awaits.  A call
\* is given either no headers or the caller's one headers object.
MaxConcRetries == 2

ConcMobileInputs == {MobileOfLength(MinMobileLength), MobileOfLength(3)}
ConcRetriesInputs == 0..MaxConcRetries

\* options.headers as the call sees it
ConcOptions(f) ==
    [timeout |-> Absent, headers |-> IF f.sharesHeaders THEN {heap} ELSE Absent]

\* axiosOptions.headers of the request call i has out
RequestOptionsHeaders(i) == IF frames[i].usesHeap THEN heap ELSE frames[i].ownHeaders

\* sendOTP(mobileNumber, null, options) is called
ConcCallSendOTP(i, m, shares) ==
    /\ frames[i].pc = "idle"
    /\ frames' = [frames EXCEPT ![i] =
                     [@ EXCEPT !.pc = "sendOTP", !.entry = "sendOTP", !.mobileNumber = m,
                               !.sharesHeaders = shares]]
    /\ UNCHANGED <<heap, nextId>>
    /\ UNCHANGED <<otpVars, smsVars, call>>

\* retrySendOTP(mobileNumber, options, maxRetries) is called:
\* retryId = generateRequestId(), attempt = 0, lastError = null
ConcCallRetrySendOTP(i, m, shares, max) ==
    /\ frames[i].pc = "idle"
    /\ frames' = [frames EXCEPT ![i] =
                     [@ EXCEPT !.pc = "retry_loop", !.entry = "retrySendOTP",
                               !.mobileNumber = m, !.sharesHeaders = shares,
                               !.maxRetries = max, !.retryId = nextId]]
    /\ nextId' = nextId + 1
    /\ UNCHANGED heap
    /\ UNCHANGED <<otpVars, smsVars, call>>

\* sendOTP from its first statement to `await axios(axiosOptions)` inside
\* postData, or to its catch block.  postData writes X-Request-ID into the
\* headers object it was given: the caller's own object for a direct call with
\* headers, a fresh object otherwise (the default headers, or retryOptions.headers)
ConcSendOTP_Begin(i) ==
    LET f == frames[i]
        err == ValidationError("traced", f.mobileNumber)
        id == nextId
        passed == IF f.entry = "retrySendOTP"
                  THEN RetryOptionsHeaders("traced", ConcOptions(f), f.attempt,
                                           f.maxRetries, f.retryId)
                  ELSE ConcOptions(f).headers
        viaHeap == PostDataGetsCallerHeaders("traced", f.entry, ConcOptions(f))
        written == Spread(FinalHeaders("traced", passed), Header("X-Request-ID", id))
    IN
    /\ f.pc = "sendOTP"
    /\ nextId' = nextId + 1
    /\ IF err # "none"
       THEN /\ frames' = [frames EXCEPT ![i] =
                            [@ EXCEPT !.pc = "sendOTP_settled", !.requestId = id,
                                      !.result = SendOTP_Catch("traced", f.mobileNumber, err)]]
            /\ UNCHANGED heap
       ELSE \E draws \in RandomDigitDraws :
            /\ frames' = [frames EXCEPT ![i] =
                            [@ EXCEPT !.pc = "awaiting", !.requestId = id,
                                      !.otpToSend = generateOTP(DefaultOtpLength, draws),
                                      !.usesHeap = viaHeap,
                                      !.ownHeaders = IF viaHeap THEN NoFrame.ownHeaders
                                                     ELSE written,
                                      !.wireId = id,
                                      !.result = NoResult]]
            /\ heap' = IF viaHeap THEN written ELSE heap
    /\ UNCHANGED <<otpVars, smsVars, call>>

\* postData resolves (with a response or with its error object) and sendOTP
\* returns
ConcPostDataResolves(i, status) ==
    /\ frames[i].pc = "awaiting"
    /\ frames' = [frames EXCEPT ![i] =
                     [@ EXCEPT !.pc = "sendOTP_settled",
                               !.result = SendOTP_AfterPost("traced", PostData_Response(status),
                                                            frames[i].otpToSend)]]
    /\ UNCHANGED <<heap, nextId>>
    /\ UNCHANGED <<otpVars, smsVars, call>>

\* the awaiter of sendOTP resumes: the caller, or the loop body of retrySendOTP
ConcSendOTP_Settles(i) ==
    LET f == frames[i] IN
    /\ f.pc = "sendOTP_settled"
    /\ frames' = [frames EXCEPT ![i] =
                     IF f.entry = "sendOTP"
                     THEN [@ EXCEPT !.pc = "done", !.outcome = f.result]
                     ELSE IF f.result.success
                     THEN [@ EXCEPT !.pc = "done",
                                    !.outcome = RetrySuccess("traced", f.result, f.attempt)]
                     ELSE [@ EXCEPT !.pc = "retry_loop", !.lastError = f.result.message]]
    /\ UNCHANGED <<heap, nextId>>
    /\ UNCHANGED <<otpVars, smsVars, call>>

\* while (attempt < maxRetries): attempt++, then the backoff or sendOTP; after
\* the loop the error is thrown
ConcRetryLoop(i) ==
    LET f == frames[i] IN
    /\ f.pc = "retry_loop"
    /\ frames' = [frames EXCEPT ![i] =
                     IF f.attempt < f.maxRetries
                     THEN [@ EXCEPT !.attempt = f.attempt + 1,
                                    !.pc = IF Backoff(f.attempt + 1, 0) > 0
                                           THEN "backoff" ELSE "sendOTP"]
                     ELSE [@ EXCEPT !.pc = "done",
                                    !.outcome = RetryExhausted("traced", f.maxRetries,
                                                               f.lastError)]]
    /\ UNCHANGED <<heap, nextId>>
    /\ UNCHANGED <<otpVars, smsVars, call>>

\* the backoff timer of call i fires
ConcBackoffElapsed(i) ==
    /\ frames[i].pc = "backoff"
    /\ frames' = [frames EXCEPT ![i] = [@ EXCEPT !.pc = "sendOTP"]]
    /\ UNCHANGED <<heap, nextId>>
    /\ UNCHANGED <<otpVars, smsVars, call>>

ConcInit ==
    /\ svc = "traced"
    /\ Idle
    /\ LibIdle

ConcNext ==
    \E i \in CallIds :
        \/ \E m \in ConcMobileInputs, shares \in BOOLEAN : ConcCallSendOTP(i, m, shares)
        \/ \E m \in ConcMobileInputs, shares \in BOOLEAN, max \in ConcRetriesInputs :
              ConcCallRetrySendOTP(i, m, shares, max)
        \/ ConcSendOTP_Begin(i)
        \/ \E status \in {200, 503} : ConcPostDataResolves(i, status)
        \/ ConcSendOTP_Settles(i)
        \/ ConcRetryLoop(i)
        \/ ConcBackoffElapsed(i)

ConcSpec == ConcInit /\ [][ConcNext]_vars

(* ------------------------------------------------------------------ *)
(* C21  two calls at once share nothing                                *)
(* ------------------------------------------------------------------ *)
\* C21: while two calls run, what belongs to one call is not written by the
\* other: the correlation id in the request options of a call that has its
\* request out is the id of that call.
C21_CorrelationIdOwnedByCall ==
    \A i \in CallIds :
        frames[i].pc = "awaiting" =>
            RequestOptionsHeaders(i)["X-Request-ID"] = frames[i].requestId

====
